---- MODULE Spec2Model ----
\* nixos-render-docs, manual.py: rendering of manual chapters to DocBook and
\* their assembly into sections (docbook-section) or fragments
\* (docbook-fragment).
EXTENDS Integers, Sequences, FiniteSets, TLC

VARIABLES
    fs,           \* the file system: path -> file
    conv,         \* which converter was constructed: "section" or "fragment"
    _sections,    \* BaseConverter._sections
    _title_seen,  \* ManualDocBookRenderer._title_seen of the converter's renderer
    _tag,         \* ManualFragmentDocBookRenderer._tag
    pc,           \* position of the single thread of control
    frame,        \* locals of the call in progress
    headings,     \* what _heading_tag returned for each heading of the current render
    result,       \* how the last call ended: value returned or exception raised
    added,        \* arguments of the add_section calls that returned normally
    failed,       \* TRUE once some add_section call raised
    nchap,        \* number of chapter paths given to add_section so far
    nconv,        \* number of convert calls made
    last,         \* the chapter render that began last, and how it ended
    cli,          \* the command-line run: args.contents and loop index
    outfile,      \* args.outfile: number of opens and the texts written
    targets,      \* the fragment files written: target path and text, in order
    ns,           \* the argparse namespace: its contents attribute
    argv,         \* the directives of the command line parsed so far
    nfinal        \* finalize calls since the last add_section call

vars == <<fs, conv, _sections, _title_seen, _tag, pc, frame, headings, result,
          added, failed, nchap, nconv, last, cli, outfile, targets, ns, argv, nfinal>>

--------------------------------------------------------------------------
\* Bounds

MaxLen == 3        \* blocks in a document
MaxSections == 2   \* sections added to one converter
MaxChapters == 3   \* chapter paths given to one converter, over all its sections
MaxConverts == 2   \* convert calls on one converter
MaxFinalize == 2   \* finalize calls in a row
MaxContent == 2    \* atoms in the body of a code block
MaxPairs == 3      \* --chapter and --section pairs of one docbook-fragment run
MaxArgs == 5       \* directives on one docbook-section command line

--------------------------------------------------------------------------
\* Inputs

Paths == {"a.md", "b.md"}

Seqs(S, n) == UNION {[1..k -> S] : k \in 0..n}

\* a Markdown document is a sequence of blocks: a level-1 heading, a level-2
\* heading or a paragraph
Blocks == {"#", "##", "p"}

\* two more blocks: a fenced code block marked {=docbook} and an indented
\* code block
DocBookFence == "~~~{=docbook}"
Indented == "    "

Docs == Seqs(Blocks, MaxLen)

\* a file is missing (open fails), undecodable (read fails) or holds a document
NoFile == [exists |-> FALSE, decodable |-> FALSE, text |-> <<>>]
BadFile == [exists |-> TRUE, decodable |-> FALSE, text |-> <<>>]
File(d) == [exists |-> TRUE, decodable |-> TRUE, text |-> d]
Files == {NoFile, BadFile} \cup {File(d) : d \in Docs}

\* the file systems: one chapter file with any content, or that chapter next
\* to a second one; in the pair the first file is one of a few
FewFiles ==
    {NoFile, BadFile, File(<<"#">>), File(<<"#", "#">>),
     File(<<"#", DocBookFence, Indented>>)}
PairFileSystems ==
    {[p \in Paths |-> IF p = "a.md" THEN x ELSE File(<<"#", "p">>)] : x \in FewFiles}
FileSystems == [{"a.md"} -> Files] \cup PairFileSystems

\* Optional[str]: strings that get escaped are sequences of atoms, every
\* character special to XML being an atom of its own
None == [some |-> FALSE, v |-> <<>>]
Some(s) == [some |-> TRUE, v |-> s]
SectionIds == {None, Some(<<"ch-intro">>)}

Tags == {"chapter", "section"}

--------------------------------------------------------------------------
\* xml.sax.saxutils

RECURSIVE Cat(_)
Cat(s) == IF s = <<>> THEN "" ELSE Head(s) \o Cat(Tail(s))

EscapeAtom(a) ==
    CASE a = "&" -> "&amp;"
      [] a = ">" -> "&gt;"
      [] a = "<" -> "&lt;"
      [] OTHER -> a

escape(s) == [i \in DOMAIN s |-> EscapeAtom(s[i])]

QuoteAttrAtom(a) ==
    CASE a = "\n" -> "&#10;"
      [] a = "\r" -> "&#13;"
      [] a = "\t" -> "&#9;"
      [] OTHER -> EscapeAtom(a)

Has(s, a) == \E i \in DOMAIN s : s[i] = a

quoteattr(s) ==
    LET data == [i \in DOMAIN s |-> QuoteAttrAtom(s[i])]
    IN  IF Has(data, "\"")
        THEN IF Has(data, "'")
             THEN "\"" \o Cat([i \in DOMAIN data |->
                                 IF data[i] = "\"" THEN "&quot;" ELSE data[i]]) \o "\""
             ELSE "'" \o Cat(data) \o "'"
        ELSE "\"" \o Cat(data) \o "\""

--------------------------------------------------------------------------
\* dict[str, str], kept in insertion order, and Python's d1 | d2

EmptyDict == <<>>

DictKeys(d) == {d[i][1] : i \in DOMAIN d}

DictMerge(a, b) ==
    LET over(kv) == IF kv[1] \in DictKeys(b)
                    THEN b[CHOOSE j \in DOMAIN b : b[j][1] = kv[1]]
                    ELSE kv
        fresh(kv) == kv[1] \notin DictKeys(a)
    IN  [i \in DOMAIN a |-> over(a[i])] \o SelectSeq(b, fresh)

--------------------------------------------------------------------------
\* The Markdown tokenizer: one token per block, with its source line range

TokenTag(b) ==
    CASE b = "#" -> "h1"
      [] b = "##" -> "h2"
      [] b = "p" -> "p"
      [] OTHER -> "code"

TokenType(b) ==
    CASE b \in {"#", "##"} -> "heading_open"
      [] b = "p" -> "paragraph"
      [] b = DocBookFence -> "fence"
      [] OTHER -> "code_block"

\* the info string and the body of the two code blocks
TokenInfo(b) == IF b = DocBookFence THEN <<"{=docbook}">> ELSE <<>>
TokenContent(b) ==
    CASE b = DocBookFence -> <<"<", "para/", ">", "\n">>
      [] b = Indented -> <<"a", "<", "b", "&", "\n">>
      [] OTHER -> <<>>

Tokenize(text) ==
    [i \in DOMAIN text |->
        [type |-> TokenType(text[i]),
         tag |-> TokenTag(text[i]),
         map |-> <<2 * (i - 1), 2 * (i - 1) + 1>>,
         info |-> TokenInfo(text[i]),
         content |-> TokenContent(text[i])]]

--------------------------------------------------------------------------
\* Exceptions: a chain of errors, the outermost first, each the cause of the
\* one before it (raise ... from e)

Error(type, msg) == <<[type |-> type, msg |-> msg]>>

RaiseFrom(type, msg, e) == Error(type, msg) \o e

NoError == <<>>

--------------------------------------------------------------------------
\* Heading Classifier

ChapterNs ==
    << <<"xmlns", <<"http://docbook.org/ns/docbook">> >>,
       <<"xmlns:xlink", <<"http://www.w3.org/1999/xlink">> >> >>

XIncludeNs == << <<"xmlns:xi", <<"http://www.w3.org/2001/XInclude">> >> >>

SecondTitleMsg(map) ==
    "only one title heading (# [text...]) allowed per manual chapter "
        \o "but found a second in lines [" \o ToString(map[1]) \o ".."
        \o ToString(map[2]) \o "]. "
        \o "please remove all such headings except the first, split your "
        \o "chapters, or demote the subsequent headings to (##) or lower."

\* DocBookRenderer._heading_tag: the heading's plain tag, its own attributes
DocBookRenderer_heading_tag(token) ==
    [tag |-> token.tag, attrs |-> EmptyDict]

\* a classifier that demotes a second level-1 heading instead of raising
DemotingHeadingTag(seen, token) ==
    LET base == DocBookRenderer_heading_tag(token)
    IN  IF seen
        THEN [raised |-> FALSE, tag |-> base.tag, attrs |-> base.attrs,
              seen |-> seen, err |-> NoError]
        ELSE [raised |-> FALSE, tag |-> "chapter",
              attrs |-> DictMerge(base.attrs, ChapterNs),
              seen |-> TRUE, err |-> NoError]

\* ManualDocBookRenderer._heading_tag, given the renderer's _title_seen
ManualDocBookRenderer_heading_tag(seen, token) ==
    LET base == DocBookRenderer_heading_tag(token)
    IN  IF seen
        THEN IF token.tag = "h1"
             THEN [raised |-> TRUE, tag |-> "", attrs |-> EmptyDict, seen |-> seen,
                   err |-> Error("RuntimeError", SecondTitleMsg(token.map))]
             ELSE [raised |-> FALSE, tag |-> base.tag, attrs |-> base.attrs,
                   seen |-> seen, err |-> NoError]
        ELSE [raised |-> FALSE, tag |-> "chapter",
              attrs |-> DictMerge(base.attrs, ChapterNs),
              seen |-> TRUE, err |-> NoError]

\* a fragment classifier whose title carries the XInclude namespace alone
XIncludeOnlyHeadingTag(seen, tag, token) ==
    LET r == ManualDocBookRenderer_heading_tag(seen, token)
    IN  IF r.raised THEN r
        ELSE IF token.tag = "h1"
             THEN [r EXCEPT !.tag = tag, !.attrs = XIncludeNs]
             ELSE r

\* ManualFragmentDocBookRenderer._heading_tag, given _title_seen and _tag
ManualFragmentDocBookRenderer_heading_tag(seen, tag, token) ==
    LET r == ManualDocBookRenderer_heading_tag(seen, token)
    IN  IF r.raised THEN r
        ELSE IF token.tag = "h1"
             THEN [r EXCEPT !.tag = tag, !.attrs = DictMerge(r.attrs, XIncludeNs)]
             ELSE r

\* the _heading_tag of the renderer class of converter c
HeadingTag(c, seen, tag, token) ==
    IF c = "fragment"
    THEN ManualFragmentDocBookRenderer_heading_tag(seen, tag, token)
    ELSE ManualDocBookRenderer_heading_tag(seen, token)

--------------------------------------------------------------------------
\* Block Renderer

RECURSIVE AttrsStr(_)
AttrsStr(attrs) ==
    IF attrs = <<>> THEN ""
    ELSE " " \o Head(attrs)[1] \o "=" \o quoteattr(Head(attrs)[2])
             \o AttrsStr(Tail(attrs))

\* DocBookRenderer.heading_open around the classified tag
heading_open(r) == "<" \o r.tag \o AttrsStr(r.attrs) \o ">\n<title>"

paragraph_open == "<para>" \o "\n "

paragraph_close == "\n" \o "</para>"

\* ManualDocBookRenderer.code_block
code_block(token) ==
    "<programlisting>\n" \o Cat(escape(token.content)) \o "</programlisting>"

\* a fence handler that wraps every fence, the {=docbook} ones too
WrappingFence(token) ==
    LET info == IF token.info # <<>>
                THEN " language=" \o quoteattr(token.info)
                ELSE ""
    IN  "<programlisting" \o info \o ">\n" \o Cat(escape(token.content))
            \o "</programlisting>"

\* ManualDocBookRenderer.fence
fence(token) ==
    IF token.info = <<"{=docbook}">>
    THEN Cat(token.content)
    ELSE LET info == IF token.info # <<>>
                     THEN " language=" \o quoteattr(token.info)
                     ELSE ""
         IN  "<programlisting" \o info \o ">\n" \o Cat(escape(token.content))
                 \o "</programlisting>"

--------------------------------------------------------------------------
\* Section Assembler: DocBookSectionConverter.finalize

RECURSIVE Join(_, _)
Join(sep, pieces) ==
    IF pieces = <<>> THEN ""
    ELSE IF Len(pieces) = 1 THEN pieces[1]
    ELSE pieces[1] \o sep \o Join(sep, Tail(pieces))

SectionOpen(section) ==
    LET id == IF section.id.some THEN "id=" \o quoteattr(section.id.v) ELSE ""
    IN  "<section " \o id \o ">"

RECURSIVE FinalizePieces(_)
FinalizePieces(sections) ==
    IF sections = <<>> THEN <<>>
    ELSE <<SectionOpen(Head(sections))>> \o Head(sections).chapters
             \o <<"</section>">> \o FinalizePieces(Tail(sections))

Finalize(sections) == Join("\n", FinalizePieces(sections))

--------------------------------------------------------------------------
\* State

NoFrame ==
    [call |-> "", id |-> None, chapters |-> <<>>, todo |-> <<>>, path |-> "",
     tag |-> "", tokens |-> <<>>, i |-> 0, out |-> ""]

NoResult == [call |-> "", status |-> "none", value |-> "", error |-> NoError]

NoLast ==
    [call |-> "", path |-> "", tag |-> "", stage |-> "", text |-> <<>>,
     status |-> "none", out |-> "", cause |-> NoError]

NoCli == [active |-> FALSE, contents |-> <<>>, k |-> 0]

NoOutfile == [opened |-> 0, written |-> <<>>]

\* the namespace before any directive: contents is None
NoNamespace == [none |-> TRUE, contents |-> <<>>]

\* a converter right after construction, used by client code
Init ==
    /\ fs \in FileSystems
    /\ conv \in {"section", "fragment"}
    /\ _sections = <<>>
    /\ _title_seen = FALSE
    /\ _tag = "chapter"
    /\ pc = "idle"
    /\ frame = NoFrame
    /\ headings = <<>>
    /\ result = NoResult
    /\ added = <<>>
    /\ failed = FALSE
    /\ nchap = 0
    /\ nconv = 0
    /\ last = NoLast
    /\ cli = NoCli
    /\ outfile = NoOutfile
    /\ targets = <<>>
    /\ ns = NoNamespace
    /\ argv = <<>>
    /\ nfinal = 0

\* an except clause that re-raises the original error as it is
Unwrapped(chpath, e) == e

\* add_section's except clause
add_section_except(chpath, e) ==
    RaiseFrom("RuntimeError", "failed to render manual chapter " \o chpath, e)

\* convert's except clause
convert_except(tag, file, e) ==
    RaiseFrom("RuntimeError", "failed to render manual " \o tag \o " " \o file, e)

Except(call, tag, path, e) ==
    IF call = "convert" THEN convert_except(tag, path, e)
    ELSE add_section_except(path, e)

\* a driver that catches the error and goes on with its loop
ContinueRun(inRun) == IF inRun THEN "cli_loop" ELSE "idle"

\* where control goes when a call raises: the drivers catch nothing
RaiseTo(inRun) == IF inRun THEN "aborted" ELSE "idle"

\* the call in progress fails with e at the given stage of a chapter: the
\* except clause wraps e, and the error leaves the call
Fail(call, tag, path, stage, text, e) ==
    /\ result' = [call |-> call, status |-> "raised", value |-> "",
                  error |-> Except(call, tag, path, e)]
    /\ last' = [call |-> call, path |-> path, tag |-> tag, stage |-> stage,
                text |-> text, status |-> "raised", out |-> "", cause |-> e]
    /\ frame' = NoFrame
    /\ failed' = (failed \/ call = "add_section")
    /\ pc' = RaiseTo(cli.active)

\* no reset: _title_seen is left as the previous chapter left it
TitleSeenKept(seen) == seen

\* the value _title_seen is given before a chapter is read and rendered
TitleSeenAtStart(seen) == FALSE

\* the render of a chapter begins
Begin(call, tag, path, text) ==
    /\ last' = [call |-> call, path |-> path, tag |-> tag, stage |-> "render",
                text |-> text, status |-> "running", out |-> "", cause |-> NoError]
    /\ headings' = <<>>
    /\ pc' = "render"
    /\ UNCHANGED <<result, failed>>

\* BaseConverter.add_section, up to its loop over the chapters
AddSectionCall(id, chapters) ==
    /\ _sections' = Append(_sections, [id |-> id, chapters |-> <<>>])
    /\ frame' = [NoFrame EXCEPT !.call = "add_section", !.id = id,
                                !.chapters = chapters, !.todo = chapters]
    /\ pc' = "chapter"
    /\ nfinal' = 0

add_section(id, chapters) ==
    /\ pc = "idle"
    /\ conv = "section"
    /\ Len(_sections) < MaxSections
    /\ nchap + Len(chapters) <= MaxChapters
    /\ nchap' = nchap + Len(chapters)
    /\ AddSectionCall(id, chapters)
    /\ UNCHANGED <<fs, conv, _title_seen, _tag, headings, result, added, failed,
                   nconv, last, cli, outfile, targets, ns, argv>>

\* add_section, loop body: open the next chapter, reset _title_seen, read it
OpenChapter ==
    /\ pc = "chapter"
    /\ frame.todo # <<>>
    /\ LET chpath == Head(frame.todo)
           file == fs[chpath]
       IN  IF ~file.exists
           THEN /\ Fail("add_section", "", chpath, "open", <<>>,
                        Error("FileNotFoundError", chpath))
                /\ UNCHANGED <<_title_seen, headings>>
           ELSE /\ _title_seen' = TitleSeenAtStart(_title_seen)
                /\ IF ~file.decodable
                   THEN /\ Fail("add_section", "", chpath, "read", <<>>,
                                Error("UnicodeDecodeError", chpath))
                        /\ UNCHANGED headings
                   ELSE /\ frame' = [frame EXCEPT !.path = chpath,
                                                  !.tokens = Tokenize(file.text),
                                                  !.i = 1, !.out = ""]
                        /\ Begin("add_section", "", chpath, file.text)
    /\ UNCHANGED <<fs, conv, _sections, _tag, added, nchap, nconv, cli, outfile, targets, ns, argv, nfinal>>

\* the renderer's heading handler on the next token of the render in progress
RenderHeading ==
    /\ pc = "render"
    /\ frame.i <= Len(frame.tokens)
    /\ frame.tokens[frame.i].type = "heading_open"
    /\ LET token == frame.tokens[frame.i]
           r == HeadingTag(conv, _title_seen, _tag, token)
       IN  IF r.raised
           THEN /\ Fail(frame.call, frame.tag, frame.path, "render", last.text, r.err)
                /\ UNCHANGED <<_title_seen, headings>>
           ELSE /\ _title_seen' = r.seen
                /\ headings' = Append(headings, [i |-> frame.i, level |-> token.tag,
                                                 tag |-> r.tag, attrs |-> r.attrs])
                /\ frame' = [frame EXCEPT !.i = @ + 1, !.out = @ \o heading_open(r)]
                /\ UNCHANGED <<pc, result, failed, last>>
    /\ UNCHANGED <<fs, conv, _sections, _tag, added, nchap, nconv, cli, outfile, targets, ns, argv, nfinal>>

\* the renderer's paragraph handlers on the next token
RenderParagraph ==
    /\ pc = "render"
    /\ frame.i <= Len(frame.tokens)
    /\ frame.tokens[frame.i].type = "paragraph"
    /\ frame' = [frame EXCEPT !.i = @ + 1,
                              !.out = @ \o paragraph_open \o "text" \o paragraph_close]
    /\ UNCHANGED <<fs, conv, _sections, _title_seen, _tag, pc, headings, result,
                   added, failed, nchap, nconv, last, cli, outfile, targets, ns, argv, nfinal>>

\* the renderer's code block handler on the next token
RenderCodeBlock ==
    /\ pc = "render"
    /\ frame.i <= Len(frame.tokens)
    /\ frame.tokens[frame.i].type = "code_block"
    /\ frame' = [frame EXCEPT !.i = @ + 1,
                              !.out = @ \o code_block(frame.tokens[frame.i])]
    /\ UNCHANGED <<fs, conv, _sections, _title_seen, _tag, pc, headings, result,
                   added, failed, nchap, nconv, last, cli, outfile, targets, ns, argv, nfinal>>

\* the renderer's fence handler on the next token
RenderFence ==
    /\ pc = "render"
    /\ frame.i <= Len(frame.tokens)
    /\ frame.tokens[frame.i].type = "fence"
    /\ frame' = [frame EXCEPT !.i = @ + 1,
                              !.out = @ \o fence(frame.tokens[frame.i])]
    /\ UNCHANGED <<fs, conv, _sections, _title_seen, _tag, pc, headings, result,
                   added, failed, nchap, nconv, last, cli, outfile, targets, ns, argv, nfinal>>

\* the chapter is inserted at the front of the last section's list
PrependChapter(sections, out) ==
    [sections EXCEPT ![Len(sections)].chapters = <<out>> \o @]

\* the chapter is appended to the first section instead of the last
AppendToFirst(sections, out) ==
    [sections EXCEPT ![1].chapters = Append(@, out)]

\* self._sections[-1].chapters.append(...)
AppendChapter(sections, out) ==
    [sections EXCEPT ![Len(sections)].chapters = Append(@, out)]

\* add_section, loop body: the rendered chapter is appended to the last section
ChapterRendered ==
    /\ pc = "render"
    /\ frame.call = "add_section"
    /\ frame.i > Len(frame.tokens)
    /\ _sections' = AppendChapter(_sections, frame.out)
    /\ frame' = [frame EXCEPT !.todo = Tail(@)]
    /\ last' = [last EXCEPT !.status = "ok", !.out = frame.out]
    /\ pc' = "chapter"
    /\ UNCHANGED <<fs, conv, _title_seen, _tag, headings, result, added, failed,
                   nchap, nconv, cli, outfile, targets, ns, argv, nfinal>>

\* add_section returns after its last chapter
AddSectionReturn ==
    /\ pc = "chapter"
    /\ frame.todo = <<>>
    /\ result' = [call |-> "add_section", status |-> "ok", value |-> "",
                  error |-> NoError]
    /\ added' = Append(added, [id |-> frame.id, chapters |-> frame.chapters])
    /\ frame' = NoFrame
    /\ pc' = IF cli.active THEN "cli_loop" ELSE "idle"
    /\ UNCHANGED <<fs, conv, _sections, _title_seen, _tag, headings, failed, nchap,
                   nconv, last, cli, outfile, targets, ns, argv, nfinal>>

\* finalize builds its result in the chapter list of each section
FinalizeInPlace ==
    /\ pc = "idle"
    /\ conv = "section"
    /\ nfinal < MaxFinalize
    /\ nfinal' = nfinal + 1
    /\ result' = [call |-> "finalize", status |-> "ok",
                  value |-> Finalize(_sections), error |-> NoError]
    /\ _sections' = [k \in DOMAIN _sections |->
                       [_sections[k] EXCEPT !.chapters = Append(@, "</section>")]]
    /\ UNCHANGED <<fs, conv, _title_seen, _tag, pc, frame, headings,
                   added, failed, nchap, nconv, last, cli, outfile, targets, ns, argv>>

\* DocBookSectionConverter.finalize
finalize ==
    /\ pc = "idle"
    /\ conv = "section"
    /\ nfinal < MaxFinalize
    /\ nfinal' = nfinal + 1
    /\ result' = [call |-> "finalize", status |-> "ok",
                  value |-> Finalize(_sections), error |-> NoError]
    /\ UNCHANGED <<fs, conv, _sections, _title_seen, _tag, pc, frame, headings,
                   added, failed, nchap, nconv, last, cli, outfile, targets, ns, argv>>

\* DocBookFragmentConverter.convert, up to the render
ConvertCall(file, tag) ==
    /\ nconv' = nconv + 1
    /\ LET f == fs[file]
       IN  IF ~f.exists
           THEN /\ Fail("convert", tag, file, "open", <<>>,
                        Error("FileNotFoundError", file))
                /\ UNCHANGED <<_title_seen, _tag, headings>>
           ELSE /\ _title_seen' = TitleSeenAtStart(_title_seen)
                /\ _tag' = tag
                /\ IF ~f.decodable
                   THEN /\ Fail("convert", tag, file, "read", <<>>,
                                Error("UnicodeDecodeError", file))
                        /\ UNCHANGED headings
                   ELSE /\ frame' = [NoFrame EXCEPT !.call = "convert", !.path = file,
                                                    !.tag = tag,
                                                    !.tokens = Tokenize(f.text),
                                                    !.i = 1]
                        /\ Begin("convert", tag, file, f.text)
    /\ UNCHANGED <<fs, conv, _sections, added, nchap, cli, outfile, targets, ns, argv, nfinal>>

\* convert called by client code
convert(file, tag) ==
    /\ pc = "idle"
    /\ conv = "fragment"
    /\ nconv < MaxConverts
    /\ ConvertCall(file, tag)

\* convert returns the rendered document
ConvertReturn ==
    /\ pc = "render"
    /\ frame.call = "convert"
    /\ frame.i > Len(frame.tokens)
    /\ result' = [call |-> "convert", status |-> "ok", value |-> frame.out,
                  error |-> NoError]
    /\ last' = [last EXCEPT !.status = "ok", !.out = frame.out]
    /\ frame' = NoFrame
    /\ pc' = IF cli.active THEN "write" ELSE "idle"
    /\ UNCHANGED <<fs, conv, _sections, _title_seen, _tag, headings, added, failed,
                   nchap, nconv, cli, outfile, targets, ns, argv, nfinal>>

Next ==
    \/ \E id \in SectionIds, chapters \in Seqs(DOMAIN fs, MaxChapters) :
         add_section(id, chapters)
    \/ OpenChapter
    \/ RenderHeading
    \/ RenderParagraph
    \/ RenderCodeBlock
    \/ RenderFence
    \/ ChapterRendered
    \/ AddSectionReturn
    \/ finalize
    \/ \E file \in DOMAIN fs, tag \in Tags : convert(file, tag)
    \/ ConvertReturn

Spec == Init /\ [][Next]_vars

--------------------------------------------------------------------------
\* The docbook-section run

RECURSIVE TotalChapters(_)
TotalChapters(contents) ==
    IF contents = <<>> THEN 0
    ELSE Len(Head(contents).chapters) + TotalChapters(Tail(contents))

\* args.contents as the argument parser leaves it
Contents(paths) ==
    {c \in Seqs([id : SectionIds, chapters : Seqs(paths, MaxChapters)], MaxSections) :
        TotalChapters(c) <= MaxChapters}

\* _run_cli_db_section has constructed its converter
InitCli ==
    /\ fs \in PairFileSystems
    /\ conv = "section"
    /\ _sections = <<>>
    /\ _title_seen = FALSE
    /\ _tag = "chapter"
    /\ pc = "cli_loop"
    /\ frame = NoFrame
    /\ headings = <<>>
    /\ result = NoResult
    /\ added = <<>>
    /\ failed = FALSE
    /\ nchap = 0
    /\ nconv = 0
    /\ last = NoLast
    /\ cli \in {[active |-> TRUE, contents |-> c, k |-> 1] : c \in Contents(DOMAIN fs)}
    /\ outfile = NoOutfile
    /\ targets = <<>>
    /\ ns = NoNamespace
    /\ argv = <<>>
    /\ nfinal = 0

\* the loop over args.contents calls add_section for the next section
CliAddSection ==
    /\ pc = "cli_loop"
    /\ cli.k <= Len(cli.contents)
    /\ LET section == cli.contents[cli.k]
       IN  /\ AddSectionCall(section.id, section.chapters)
           /\ nchap' = nchap + Len(section.chapters)
    /\ cli' = [cli EXCEPT !.k = @ + 1]
    /\ UNCHANGED <<fs, conv, _title_seen, _tag, headings, result, added, failed,
                   nconv, last, outfile, targets, ns, argv>>

\* after the loop the output file is opened and finalize() written to it
CliWriteOutfile ==
    /\ pc = "cli_loop"
    /\ cli.k > Len(cli.contents)
    /\ outfile' = [opened |-> outfile.opened + 1,
                   written |-> Append(outfile.written, Finalize(_sections))]
    /\ result' = [call |-> "finalize", status |-> "ok",
                  value |-> Finalize(_sections), error |-> NoError]
    /\ pc' = "done"
    /\ UNCHANGED <<fs, conv, _sections, _title_seen, _tag, frame, headings, added,
                   failed, nchap, nconv, last, cli, targets, ns, argv, nfinal>>

NextCli ==
    \/ CliAddSection
    \/ OpenChapter
    \/ RenderHeading
    \/ RenderParagraph
    \/ RenderCodeBlock
    \/ RenderFence
    \/ ChapterRendered
    \/ AddSectionReturn
    \/ CliWriteOutfile

SpecCli == InitCli /\ [][NextCli]_vars

--------------------------------------------------------------------------
\* Properties of the heading classifier

\* a heading was rendered as the title container: it did not keep its plain
\* tag and attributes
IsTitle(h) == h.tag # h.level \/ h.attrs # EmptyDict

Titles(hs) == {k \in DOMAIN hs : IsTitle(hs[k])}

H1s(text) == {i \in DOMAIN text : text[i] = "#"}

HeadingBlocks(text) == {i \in DOMAIN text : text[i] \in {"#", "##"}}

\* a render of a document that was read has ended
Ended == last.stage = "render" /\ last.status \in {"ok", "raised"}

RootTag == IF conv = "fragment" THEN last.tag ELSE "chapter"

\* C1: in one chapter render at most one heading is rendered as the title
\* container, and no level-1 heading is ever rendered, as a plain heading or
\* as a title, after a title was established: a render that got past such a
\* heading does not exist, so the render of such a chapter never succeeds.
C1_AtMostOneTitle ==
    /\ Cardinality(Titles(headings)) <= 1
    /\ \A k \in DOMAIN headings :
         headings[k].level = "h1" => \A j \in 1..(k - 1) : ~IsTitle(headings[j])
    /\ (Ended /\ last.status = "ok") =>
         {headings[k].i : k \in DOMAIN headings} = HeadingBlocks(last.text)

\* a render failed at a level-1 heading that followed the title
C1_Witness ==
    /\ Ended
    /\ last.status = "raised"
    /\ Titles(headings) = {1}
    /\ Len(headings) = 2

\* C2: a chapter with exactly one level-1 heading renders successfully, and
\* the heading rendered with the root tag and the namespace attributes is
\* that level-1 heading.
C2_SingleTitleRenders ==
    (Ended /\ Cardinality(H1s(last.text)) = 1) =>
        /\ last.status = "ok"
        /\ \A k \in DOMAIN headings :
             /\ IsTitle(headings[k]) <=> headings[k].level = "h1"
             /\ headings[k].level = "h1" =>
                  /\ headings[k].tag = RootTag
                  /\ {"xmlns", "xmlns:xlink"} \subseteq DictKeys(headings[k].attrs)

SecondH1(text) ==
    CHOOSE i \in H1s(text) : Cardinality({j \in H1s(text) : j < i}) = 1

\* C3: a chapter with two or more level-1 headings fails to render with the
\* structural error, which reports the line range of the second level-1
\* heading.
C3_SecondTitleReported ==
    (Ended /\ Cardinality(H1s(last.text)) >= 2) =>
        /\ last.status = "raised"
        /\ last.cause = Error("RuntimeError",
                              SecondTitleMsg(Tokenize(last.text)[SecondH1(last.text)].map))

\* C4: a heading of another level than 1 is never rendered as the title
\* container, and a chapter without level-1 heading renders successfully
\* with every heading plain.
C4_OtherLevelsPlain ==
    /\ \A k \in DOMAIN headings :
         headings[k].level # "h1" => ~IsTitle(headings[k])
    /\ (Ended /\ H1s(last.text) = {}) =>
         /\ last.status = "ok"
         /\ \A k \in DOMAIN headings : ~IsTitle(headings[k])

--------------------------------------------------------------------------
\* Properties of the assembly

\* Converter._render on a renderer whose _title_seen is seen: the handlers'
\* outputs for the tokens from i on, concatenated, or the first error raised
RECURSIVE RenderFrom(_, _, _, _, _, _)
RenderFrom(c, seen, tag, tokens, i, out) ==
    IF i > Len(tokens) THEN [status |-> "ok", out |-> out, err |-> NoError]
    ELSE IF tokens[i].type = "heading_open"
         THEN LET r == HeadingTag(c, seen, tag, tokens[i])
              IN  IF r.raised
                  THEN [status |-> "raised", out |-> "", err |-> r.err]
                  ELSE RenderFrom(c, r.seen, tag, tokens, i + 1,
                                  out \o heading_open(r))
         ELSE RenderFrom(c, seen, tag, tokens, i + 1,
                         out \o (CASE tokens[i].type = "fence" -> fence(tokens[i])
                                   [] tokens[i].type = "code_block" ->
                                        code_block(tokens[i])
                                   [] OTHER ->
                                        paragraph_open \o "text" \o paragraph_close))

\* the render of a document by a renderer that has seen no title
RenderFresh(c, tag, text) == RenderFrom(c, FALSE, tag, Tokenize(text), 1, "")

RECURSIVE ExpectedPieces(_)
ExpectedPieces(adds) ==
    IF adds = <<>> THEN <<>>
    ELSE LET a == Head(adds)
         IN  <<SectionOpen(a)>>
                 \o [k \in DOMAIN a.chapters |->
                       RenderFresh("section", "chapter", fs[a.chapters[k]].text).out]
                 \o <<"</section>">>
                 \o ExpectedPieces(Tail(adds))

\* C5: after add_section calls that all succeeded, finalize returns the
\* newline-joined pieces, section by section in the order added: the opening
\* tag, the renders of the chapters in the order their paths were given, the
\* closing tag.
C5_FinalizeInOrder ==
    (result.call = "finalize" /\ ~failed) =>
        result.value = Join("\n", ExpectedPieces(added))

\* finalize after two sections, the first with two different chapters
C5_Witness ==
    /\ result.call = "finalize"
    /\ ~failed
    /\ Len(added) = 2
    /\ added[1].chapters = <<"b.md", "a.md">>
    /\ added[2].chapters = <<"b.md">>
    /\ fs["a.md"] = File(<<"#">>)

\* C6: _title_seen is false when the render of a chapter begins, whatever
\* was rendered before and however it ended, and every render ends as the
\* render of its text by a fresh renderer ends: with the same output or the
\* same error.
C6_FreshPerChapter ==
    /\ (pc = "render" /\ frame.i = 1) => ~_title_seen
    /\ Ended =>
         LET r == RenderFresh(conv, last.tag, last.text)
         IN  /\ last.status = r.status
             /\ last.out = r.out
             /\ last.cause = r.err

\* the only chapter there is begins to render again, after its previous
\* render failed at a second title
C6_Witness ==
    /\ DOMAIN fs = {"a.md"}
    /\ pc = "render"
    /\ frame.i = 1
    /\ result.status = "raised"
    /\ Len(result.error) = 2
    /\ result.error[2].type = "RuntimeError"

\* a step in which the call in progress fails
CallFails ==
    /\ last'.status = "raised"
    /\ \/ /\ pc = "chapter"
          /\ frame.todo # <<>>
          /\ pc' # "render"
       \/ /\ pc = "render"
          /\ frame.i <= Len(frame.tokens)
          /\ pc' # "render"
       \/ /\ pc = "idle"
          /\ nconv' # nconv
          /\ pc' # "render"

\* C8: a failure while a chapter is opened, read or rendered leaves
\* add_section as one error naming the chapter's path, and leaves convert as
\* one error naming the tag and the path, in both cases with the original
\* error as its cause; the call does not return normally.
C8_FailuresWrapped ==
    [][CallFails =>
         /\ last'.cause # NoError
         /\ result' =
              [call |-> last'.call, status |-> "raised", value |-> "",
               error |->
                 <<[type |-> "RuntimeError",
                    msg |-> IF last'.call = "convert"
                            THEN "failed to render manual " \o last'.tag \o " "
                                     \o last'.path
                            ELSE "failed to render manual chapter " \o last'.path]>>
                     \o last'.cause]]_vars

\* add_section failed because the chapter could not be decoded
C8_Witness ==
    /\ result.call = "add_section"
    /\ result.status = "raised"
    /\ Len(result.error) = 2
    /\ result.error[2].type = "UnicodeDecodeError"

\* the first heading of a section fragment is a level-1 heading
SectionFragmentTitle ==
    /\ conv = "fragment"
    /\ last.stage = "render"
    /\ last.tag = "section"
    /\ headings # <<>>
    /\ headings[1].level = "h1"

\* C9 as claimed: the root of a section fragment whose first heading is a
\* level-1 heading has tag section, and xmlns:xi is the only namespace
\* attribute injected into it.
C9_OnlyXInclude ==
    SectionFragmentTitle =>
        /\ headings[1].tag = "section"
        /\ DictKeys(headings[1].attrs) = {"xmlns:xi"}

\* C9: the root of a section fragment whose first heading is a level-1
\* heading has tag section and carries xmlns, xmlns:xlink and xmlns:xi: the
\* attributes of the chapter-mode root and the XInclude namespace after them.
C9_ChapterNsAndXInclude ==
    SectionFragmentTitle =>
        LET token == Tokenize(last.text)[headings[1].i]
            chapterRoot == ManualDocBookRenderer_heading_tag(FALSE, token)
        IN  /\ headings[1].tag = "section"
            /\ DictKeys(headings[1].attrs) = {"xmlns", "xmlns:xlink", "xmlns:xi"}
            /\ headings[1].attrs = chapterRoot.attrs \o XIncludeNs
            /\ headings[1].attrs # chapterRoot.attrs

C9_Witness == SectionFragmentTitle /\ last.status = "ok"

RECURSIVE ClaimedPieces(_)
ClaimedPieces(sections) ==
    IF sections = <<>> THEN <<>>
    ELSE LET section == Head(sections)
             open == IF section.id.some
                     THEN "<section id=" \o quoteattr(section.id.v) \o ">"
                     ELSE "<section>"
         IN  <<open>> \o section.chapters \o <<"</section>">>
                 \o ClaimedPieces(Tail(sections))

\* C10: in the output of finalize a section without id opens with exactly
\* <section>, a section with an id with <section id=...>, the id quoted as
\* an attribute value.
C10_OpeningTags ==
    result.call = "finalize" => result.value = Join("\n", ClaimedPieces(_sections))

--------------------------------------------------------------------------
\* Properties of the docbook-section run

\* C7: when the render of a chapter fails the run ends with that error and
\* the output file is never opened; the file is opened and written once, and
\* only when every chapter of every section has been rendered.
C7_AllOrNothing ==
    /\ failed => /\ pc = "aborted"
                 /\ result.status = "raised"
                 /\ outfile = NoOutfile
    /\ pc = "aborted" => failed
    /\ outfile # NoOutfile =>
         /\ pc = "done"
         /\ outfile.opened = 1
         /\ Len(outfile.written) = 1
         /\ Len(_sections) = Len(cli.contents)
         /\ \A k \in DOMAIN cli.contents :
              Len(_sections[k].chapters) = Len(cli.contents[k].chapters)
    /\ pc = "done" => outfile # NoOutfile

\* the run ended at a chapter of the second section that failed to render
C7_Witness ==
    /\ pc = "aborted"
    /\ Len(added) = 1
    /\ Len(_sections) = 2
    /\ last.stage = "render"
    /\ outfile = NoOutfile

--------------------------------------------------------------------------
\* The docbook-fragment run: _run_cli_db_fragment(args)

TargetPaths == {"out/a.xml", "out/b.xml"}

\* SingleFileAction: a (target, file) pair
Pairs == [target : TargetPaths, file : Paths]

\* args.chapter and args.section, both required, as lists of pairs
FragmentArgs ==
    {a \in [chapter : Seqs(Pairs, MaxPairs), section : Seqs(Pairs, MaxPairs)] :
        /\ a.chapter # <<>>
        /\ a.section # <<>>
        /\ Len(a.chapter) + Len(a.section) <= MaxPairs}

\* the pairs in the order of the two loops: kind by kind, pair by pair
Jobs(args) ==
    [k \in DOMAIN args.chapter |->
        [kind |-> "chapter", target |-> args.chapter[k].target,
         file |-> args.chapter[k].file]]
    \o [k \in DOMAIN args.section |->
          [kind |-> "section", target |-> args.section[k].target,
           file |-> args.section[k].file]]

\* _run_cli_db_fragment has constructed its converter
InitFrag ==
    /\ fs \in PairFileSystems
    /\ conv = "fragment"
    /\ _sections = <<>>
    /\ _title_seen = FALSE
    /\ _tag = "chapter"
    /\ pc = "cli_loop"
    /\ frame = NoFrame
    /\ headings = <<>>
    /\ result = NoResult
    /\ added = <<>>
    /\ failed = FALSE
    /\ nchap = 0
    /\ nconv = 0
    /\ last = NoLast
    /\ cli \in {[active |-> TRUE, contents |-> Jobs(a), k |-> 1] : a \in FragmentArgs}
    /\ outfile = NoOutfile
    /\ targets = <<>>
    /\ ns = NoNamespace
    /\ argv = <<>>
    /\ nfinal = 0

\* the loops call convert for the next pair
FragConvert ==
    /\ pc = "cli_loop"
    /\ cli.k <= Len(cli.contents)
    /\ ConvertCall(cli.contents[cli.k].file, cli.contents[cli.k].kind)

\* the converted text is written to the target of the pair
FragWrite ==
    /\ pc = "write"
    /\ targets' = Append(targets, [target |-> cli.contents[cli.k].target,
                                    text |-> result.value])
    /\ cli' = [cli EXCEPT !.k = @ + 1]
    /\ pc' = "cli_loop"
    /\ UNCHANGED <<fs, conv, _sections, _title_seen, _tag, frame, headings, result,
                   added, failed, nchap, nconv, last, outfile, ns, argv, nfinal>>

\* after the last pair the run returns
FragReturn ==
    /\ pc = "cli_loop"
    /\ cli.k > Len(cli.contents)
    /\ pc' = "done"
    /\ UNCHANGED <<fs, conv, _sections, _title_seen, _tag, frame, headings, result,
                   added, failed, nchap, nconv, last, cli, outfile, targets, ns, argv,
                   nfinal>>

NextFrag ==
    \/ FragConvert
    \/ RenderHeading
    \/ RenderParagraph
    \/ RenderCodeBlock
    \/ RenderFence
    \/ ConvertReturn
    \/ FragWrite
    \/ FragReturn

SpecFrag == InitFrag /\ [][NextFrag]_vars

\* the conversion of a pair, by a converter that has converted nothing yet
Converted(job) ==
    LET f == fs[job.file]
    IN  IF f.exists /\ f.decodable
        THEN RenderFresh("fragment", job.kind, f.text)
        ELSE [status |-> "raised", out |-> "", err |-> NoError]

\* C11: the pairs are processed one after another, each output written
\* right after its own conversion; the run stops at the first pair whose
\* conversion fails, with no later pair converted or written and the outputs
\* of the earlier pairs still there.
C11_StopAtFirstFailure ==
    LET jobs == cli.contents
        n == Len(targets)
    IN  /\ n = cli.k - 1
        /\ \A j \in 1..n :
              /\ Converted(jobs[j]).status = "ok"
              /\ targets[j] = [target |-> jobs[j].target,
                               text |-> Converted(jobs[j]).out]
        /\ nconv = IF pc \in {"render", "write", "aborted"} THEN n + 1 ELSE n
        /\ pc = "aborted" =>
              /\ Converted(jobs[n + 1]).status = "raised"
              /\ result.status = "raised"
        /\ pc = "done" => n = Len(jobs)

\* the run stopped at its third pair, the outputs of the first two written
C11_Witness ==
    /\ pc = "aborted"
    /\ Len(targets) = 2
    /\ Len(cli.contents) = 3
    /\ nconv = 3

--------------------------------------------------------------------------
\* The docbook-section command line: the argument parser, then the run

\* the chapter paths as they are written on the command line
ArgPaths == {"./a.md", "b.md"}

\* pathlib.Path: the path in its normal form
Path(s) == IF s = "./a.md" THEN "a.md" ELSE s

IdValues == {<<"ch-intro">>, <<"ch-other">>}

\* the directives: --section, --section-id ID, --chapters PATH [PATH ...]
Directive(opt, id, chapters) == [opt |-> opt, id |-> id, chapters |-> chapters]
ChapterValues == Seqs(ArgPaths, 2) \ {<<>>}

\* Section()
NewSection == [id |-> None, chapters |-> <<>>]

\* what an action's __call__ does: it returns with the namespace, or raises
Returned(n) == [raised |-> FALSE, ns |-> n]
Raised(n) == [raised |-> TRUE, ns |-> n]

\* SectionAction.__call__
SectionAction(n) ==
    LET sections == IF n.none THEN <<>> ELSE n.contents
    IN  Returned([none |-> FALSE, contents |-> Append(sections, NewSection)])

\* a --section-id that begins a section when none is active
LenientSectionIDAction(n, values) ==
    LET sections == IF n.none THEN <<NewSection>> ELSE n.contents
    IN  Returned([none |-> FALSE,
                  contents |-> [sections EXCEPT ![Len(sections)].id = Some(values)]])

\* SectionIDAction.__call__
SectionIDAction(n, values) ==
    IF n.none THEN Raised(n)
    ELSE Returned([n EXCEPT !.contents[Len(n.contents)].id = Some(values)])

\* a --chapters that replaces the chapter list of the last section
ReplacingChaptersAction(n, values) ==
    IF n.none THEN Raised(n)
    ELSE Returned([n EXCEPT !.contents[Len(n.contents)].chapters =
                               [k \in DOMAIN values |-> Path(values[k])]])

\* ChaptersAction.__call__
ChaptersAction(n, values) ==
    IF n.none THEN Raised(n)
    ELSE Returned([n EXCEPT !.contents[Len(n.contents)].chapters =
                               @ \o [k \in DOMAIN values |-> Path(values[k])]])

\* the parser has been built and the run has a converter to use once the
\* command line is parsed
InitArgs ==
    /\ fs \in {[p \in Paths |-> IF p = "a.md" THEN x ELSE File(<<"#", "p">>)] :
                  x \in {NoFile, File(<<"#", DocBookFence, Indented>>)}}
    /\ conv = "section"
    /\ _sections = <<>>
    /\ _title_seen = FALSE
    /\ _tag = "chapter"
    /\ pc = "parse"
    /\ frame = NoFrame
    /\ headings = <<>>
    /\ result = NoResult
    /\ added = <<>>
    /\ failed = FALSE
    /\ nchap = 0
    /\ nconv = 0
    /\ last = NoLast
    /\ cli = NoCli
    /\ outfile = NoOutfile
    /\ targets = <<>>
    /\ ns = NoNamespace
    /\ argv = <<>>
    /\ nfinal = 0

\* the parser calls the action of the next directive d, with outcome r: an
\* ArgumentError ends the parse with the usage message
ParseDirective(d, r) ==
    /\ pc = "parse"
    /\ Len(argv) < MaxArgs
    /\ argv' = Append(argv, d)
    /\ IF r.raised
       THEN /\ pc' = "usage"
            /\ result' = [call |-> "parse_args", status |-> "raised", value |-> "",
                          error |-> <<Error("ArgumentError", "no active section")>>]
            /\ ns' = ns
       ELSE /\ ns' = r.ns
            /\ UNCHANGED <<pc, result>>
    /\ UNCHANGED <<fs, conv, _sections, _title_seen, _tag, frame, headings, added,
                   failed, nchap, nconv, last, cli, outfile, targets, nfinal>>

ParseSection ==
    /\ ~ns.none => Len(ns.contents) < MaxSections
    /\ ParseDirective(Directive("--section", <<>>, <<>>), SectionAction(ns))

ParseSectionID(id) ==
    /\ id \in IdValues
    /\ ParseDirective(Directive("--section-id", id, <<>>), SectionIDAction(ns, id))

ParseChapters(values) ==
    /\ TotalChapters(ns.contents) + Len(values) <= MaxChapters
    /\ ParseDirective(Directive("--chapters", <<>>, values), ChaptersAction(ns, values))

\* parse_args returns and run_cli calls _run_cli_db_section, which starts its
\* loop over args.contents: None is not iterable
RunCli ==
    /\ pc = "parse"
    /\ IF ns.none
       THEN /\ pc' = "aborted"
            /\ result' = [call |-> "run_cli", status |-> "raised", value |-> "",
                          error |-> <<Error("TypeError",
                                            "'NoneType' object is not iterable")>>]
            /\ cli' = cli
       ELSE /\ pc' = "cli_loop"
            /\ cli' = [active |-> TRUE, contents |-> ns.contents, k |-> 1]
            /\ result' = result
    /\ UNCHANGED <<fs, conv, _sections, _title_seen, _tag, frame, headings, added,
                   failed, nchap, nconv, last, outfile, targets, ns, argv, nfinal>>

NextArgs ==
    \/ ParseSection
    \/ \E id \in IdValues : ParseSectionID(id)
    \/ \E values \in ChapterValues : ParseChapters(values)
    \/ RunCli
    \/ CliAddSection
    \/ OpenChapter
    \/ RenderHeading
    \/ RenderParagraph
    \/ RenderCodeBlock
    \/ RenderFence
    \/ ChapterRendered
    \/ AddSectionReturn
    \/ CliWriteOutfile

SpecArgs == InitArgs /\ [][NextArgs]_vars

--------------------------------------------------------------------------
\* The code block handlers on their own: the renderer is handed one token

\* bodies and info strings, as sequences of atoms
ContentAtoms == {"x", "<", "&", ">"}
Bodies == Seqs(ContentAtoms, MaxContent)
Infos ==
    {<<>>, <<"{=docbook}">>, <<"{=docbook}", " ">>, <<"python">>,
     <<"a", "\"", "<", "b">>}

CodeTokens ==
    {[type |-> "fence", tag |-> "code", map |-> <<0, 1>>, info |-> info,
      content |-> content] : info \in Infos, content \in Bodies}
    \cup
    {[type |-> "code_block", tag |-> "code", map |-> <<0, 1>>, info |-> <<>>,
      content |-> content] : content \in Bodies}

InitBlocks ==
    /\ fs = [p \in Paths |-> NoFile]
    /\ conv = "section"
    /\ _sections = <<>>
    /\ _title_seen = FALSE
    /\ _tag = "chapter"
    /\ pc = "render"
    /\ frame \in {[NoFrame EXCEPT !.call = "render", !.tokens = <<t>>, !.i = 1] :
                     t \in CodeTokens}
    /\ headings = <<>>
    /\ result = NoResult
    /\ added = <<>>
    /\ failed = FALSE
    /\ nchap = 0
    /\ nconv = 0
    /\ last = NoLast
    /\ cli = NoCli
    /\ outfile = NoOutfile
    /\ targets = <<>>
    /\ ns = NoNamespace
    /\ argv = <<>>
    /\ nfinal = 0

NextBlocks ==
    \/ RenderCodeBlock
    \/ RenderFence

SpecBlocks == InitBlocks /\ [][NextBlocks]_vars

\* the programlisting element the claim describes
ProgramListing(language, body) ==
    "<programlisting" \o language \o ">\n" \o Cat(escape(body))
        \o "</programlisting>"

\* the token handed to the renderer has been rendered
CodeRendered == pc = "render" /\ frame.call = "render" /\ frame.i = 2

\* C14: a fence whose info is exactly {=docbook} renders to its body as it
\* is; every other fence renders to a programlisting around the escaped body,
\* with a language attribute holding the info exactly when the info is not
\* empty; an indented code block renders to a programlisting around the
\* escaped body with no language attribute.
C14_CodeBlocks ==
    CodeRendered =>
        LET t == frame.tokens[1]
        IN  /\ (t.type = "fence" /\ t.info = <<"{=docbook}">>) =>
                  frame.out = Cat(t.content)
            /\ (t.type = "fence" /\ t.info # <<"{=docbook}">> /\ t.info # <<>>) =>
                  frame.out =
                    ProgramListing(" language=" \o quoteattr(t.info), t.content)
            /\ (t.type = "fence" /\ t.info = <<>>) =>
                  frame.out = ProgramListing("", t.content)
            /\ t.type = "code_block" =>
                  frame.out = ProgramListing("", t.content)

\* a {=docbook} fence whose body holds markup has been rendered
C14_Witness ==
    /\ CodeRendered
    /\ frame.tokens[1].type = "fence"
    /\ frame.tokens[1].info = <<"{=docbook}">>
    /\ frame.tokens[1].content = <<"<", "x">>
    /\ frame.out = "<x"

--------------------------------------------------------------------------
\* Properties of the title flag and of the title container

\* a token of the chapter being rendered is processed without an error
TokenStep == pc = "render" /\ pc' = "render" /\ frame'.i = frame.i + 1

\* C15: while a chapter is rendered _title_seen never goes back to false, and
\* it changes exactly when a level-1 heading is classified while it is false;
\* every other token leaves it as it was.
C15_TitleSeenOnlyAtH1 ==
    [][TokenStep =>
         /\ _title_seen => _title_seen'
         /\ _title_seen' # _title_seen <=>
                /\ frame.tokens[frame.i].tag = "h1"
                /\ ~_title_seen]_vars

\* C16: in a convert(file, tag) call every heading rendered as the title
\* container carries the tag passed to that call.
C16_TitleCarriesCallTag ==
    conv = "fragment" /\ last.call = "convert" /\ last.stage = "render" =>
        \A k \in Titles(headings) : headings[k].tag = last.tag

--------------------------------------------------------------------------
\* Properties of a failed add_section

\* an add_section call is between its first statement and its end
InAddSection == pc \in {"chapter", "render"} /\ frame.call = "add_section"

\* the sections before the last one
Earlier(sections) == SubSeq(sections, 1, Len(sections) - 1)

\* the renders of the first n chapters of the call in progress
RenderedSoFar(n) ==
    [k \in 1..n |-> RenderFresh("section", "chapter", fs[frame.chapters[k]].text).out]

\* C17: while add_section runs the sections of earlier calls stay as they
\* were; when it fails at its k-th chapter the failing step appends nothing,
\* and the section the call appended is still the last one, holding the
\* given id and exactly the renders of chapters 1..k-1 in order, so that
\* finalize would end with that partial section.
C17_PartialSectionKept ==
    [][/\ InAddSection =>
            /\ Len(_sections') = Len(_sections)
            /\ Earlier(_sections') = Earlier(_sections)
       /\ (CallFails /\ frame.call = "add_section") =>
            LET n == Len(frame.chapters) - Len(frame.todo)
                partial == [id |-> frame.id, chapters |-> RenderedSoFar(n)]
                pieces == FinalizePieces(_sections')
            IN  /\ _sections' = _sections
                /\ _sections'[Len(_sections')] = partial
                /\ SubSeq(pieces, Len(pieces) - n - 1, Len(pieces)) =
                      <<SectionOpen(partial)>> \o partial.chapters
                          \o <<"</section>">>]_vars

\* after one section was added, a second add_section failed at its second
\* chapter: the second section is there with one chapter
C17_Witness ==
    /\ result.call = "add_section"
    /\ result.status = "raised"
    /\ Len(added) = 1
    /\ Len(_sections) = 2
    /\ Len(_sections[2].chapters) = 1

--------------------------------------------------------------------------
\* Properties of finalize as a function of the sections

\* a finalize call of client code
FinalizeStep == pc = "idle" /\ pc' = "idle" /\ nfinal' = nfinal + 1

\* C12: finalize leaves the section list, every id and every chapter list as
\* they were, and a finalize that follows another with no add_section in
\* between returns the same string.
C12_FinalizePure ==
    [][FinalizeStep =>
         /\ _sections' = _sections
         /\ result'.call = "finalize"
         /\ nfinal >= 1 =>
               /\ result.call = "finalize"
               /\ result'.value = result.value]_vars

\* finalize was called twice in a row on two sections, one with an id and
\* two chapters
C12_Witness ==
    /\ nfinal = 2
    /\ Len(_sections) = 2
    /\ _sections[1].id # None
    /\ Len(_sections[1].chapters) = 2

--------------------------------------------------------------------------
\* Properties of the docbook-section command line

\* the directives that come before every --section
BeforeAnySection(a) ==
    {i \in DOMAIN a :
        /\ a[i].opt \in {"--section-id", "--chapters"}
        /\ \A j \in 1..i : a[j].opt # "--section"}

\* C13: when --section-id or --chapters comes before any --section the
\* parser rejects the command line at that directive with the usage error
\* "no active section": no section was added, no chapter file opened or
\* rendered and the output file not opened; and it is rejected only then.
C13_NoActiveSection ==
    /\ BeforeAnySection(argv) # {} =>
          /\ pc = "usage"
          /\ BeforeAnySection(argv) = {Len(argv)}
          /\ result = [call |-> "parse_args", status |-> "raised", value |-> "",
                       error |-> <<Error("ArgumentError", "no active section")>>]
          /\ cli = NoCli
          /\ _sections = <<>>
          /\ last = NoLast
          /\ frame = NoFrame
          /\ outfile = NoOutfile
    /\ pc = "usage" => BeforeAnySection(argv) # {}

\* the command line began with --chapters and was rejected there
C13_Witness ==
    /\ pc = "usage"
    /\ argv = <<Directive("--chapters", <<>>, <<"./a.md">>)>>

\* the positions of the --section directives
Starts(a) == {i \in DOMAIN a : a[i].opt = "--section"}

\* the last directive of the section begun at position i
EndOf(a, i) ==
    LET later == {j \in Starts(a) : j > i}
    IN  IF later = {} THEN Len(a)
        ELSE (CHOOSE j \in later : \A x \in later : j <= x) - 1

\* the id the directives lo..hi leave: that of the last --section-id
IdOf(a, lo, hi) ==
    LET ids == {i \in lo..hi : a[i].opt = "--section-id"}
    IN  IF ids = {} THEN None
        ELSE Some(a[CHOOSE i \in ids : \A x \in ids : x <= i].id)

\* the paths of the --chapters directives among lo..hi, in order
RECURSIVE ChaptersOf(_, _, _)
ChaptersOf(a, lo, hi) ==
    IF lo > hi THEN <<>>
    ELSE (IF a[lo].opt = "--chapters"
          THEN [k \in DOMAIN a[lo].chapters |-> Path(a[lo].chapters[k])]
          ELSE <<>>) \o ChaptersOf(a, lo + 1, hi)

\* one Section per --section, in the order of the directives
SectionsOf(a) ==
    [n \in 1..Cardinality(Starts(a)) |->
        LET i == CHOOSE x \in Starts(a) :
                     Cardinality({y \in Starts(a) : y <= x}) = n
        IN  [id |-> IdOf(a, i, EndOf(a, i)),
             chapters |-> ChaptersOf(a, i, EndOf(a, i))]]

\* C18: for a command line that begins with --section the parsed contents
\* hold one Section per --section in order; the id of each is that of the
\* last --section-id between its --section and the next, None when there is
\* none, and its chapter list is the concatenation of the --chapters lists
\* between its --section and the next; the run iterates over these contents.
C18_ContentsFollowDirectives ==
    (argv # <<>> /\ argv[1].opt = "--section") =>
        /\ ~ns.none
        /\ ns.contents = SectionsOf(argv)
        /\ cli.active => cli.contents = SectionsOf(argv)

\* a section given two ids and two chapter lists has been parsed and is run
C18_Witness ==
    /\ cli.active
    /\ argv = <<Directive("--section", <<>>, <<>>),
                Directive("--section-id", <<"ch-intro">>, <<>>),
                Directive("--chapters", <<>>, <<"b.md">>),
                Directive("--section-id", <<"ch-other">>, <<>>),
                Directive("--chapters", <<>>, <<"./a.md", "b.md">>)>>
    /\ ns.contents = <<[id |-> Some(<<"ch-other">>),
                        chapters |-> <<"b.md", "a.md", "b.md">>]>>

====
